---- MODULE Spec2Model ----
(***************************************************************************)
(* pps-tools: the typed layer around the kernel PPS control operations.    *)
(*                                                                         *)
(* The model has two parts.                                                *)
(*   - the device handle PpsFile (src/lib.rs) on top of the PpsIoc backend *)
(*     contract (src/common.rs) and its Linux marshalling                  *)
(*     (src/linux/mod.rs): specification Spec;                             *)
(*   - the mode-flag builder PpsModeBuilder (src/common.rs):               *)
(*     specification SpecMode.                                             *)
(*                                                                         *)
(* Fixed-width integers of the program (u32, i32, i64, u64) are modelled   *)
(* as little-endian sequences of base-256 limbs in two's complement, so    *)
(* that values around 2^31, 2^32 and 2^64 are computed exactly and casts   *)
(* ("as i64", "as u64", "as i32") extend or truncate as Rust does.         *)
(***************************************************************************)
EXTENDS Integers, Sequences, FiniteSets, TLC

\* -------------------------------------------------------------------------
\* Fixed-width integer arithmetic (Rust primitive integer semantics)
\* -------------------------------------------------------------------------

\* number of limbs of the 32-bit and 64-bit types
\* bytes of a 32-bit and of a 64-bit integer; one limb is one byte
W32 == 32 \div 8
W64 == 64 \div 8

LimbBase == 2 ^ 8

\* the k-limb value of a natural n (n below 2^31)
RECURSIVE Limbs(_, _)
Limbs(n, k) == IF k = 0 THEN << >> ELSE << n % LimbBase >> \o Limbs(n \div LimbBase, k - 1)

Zero(k) == Limbs(0, k)

\* top bit set: the value is negative when read as a signed integer
IsNeg(x) == x[Len(x)] >= 128

\* "x as <wider unsigned source>": zero extension of an unsigned value to k limbs
ZeroExtend(x, k) == x \o [i \in 1..(k - Len(x)) |-> 0]

\* "x as <wider>": sign extension of a signed value to k limbs
SignExtend(x, k) == x \o [i \in 1..(k - Len(x)) |-> IF IsNeg(x) THEN 255 ELSE 0]

\* "x as <narrower>": truncation to the low k limbs
Truncate(x, k) == SubSeq(x, 1, k)

\* wrapping addition of two values of the same width, with carry c
RECURSIVE AddC(_, _, _)
AddC(a, b, c) ==
    IF a = << >> THEN << >>
    ELSE LET s == Head(a) + Head(b) + c
         IN  << s % LimbBase >> \o AddC(Tail(a), Tail(b), s \div LimbBase)

WAdd(a, b) == AddC(a, b, 0)

BitNotW(a) == [i \in 1..Len(a) |-> 255 - a[i]]

\* wrapping negation and subtraction
WNeg(a) == AddC(BitNotW(a), Zero(Len(a)), 1)
WSub(a, b) == AddC(a, BitNotW(b), 1)

\* a * d for one limb d, wrapping at the width of a
RECURSIVE MulLimb(_, _, _)
MulLimb(a, d, c) ==
    IF a = << >> THEN << >>
    ELSE LET p == Head(a) * d + c
         IN  << p % LimbBase >> \o MulLimb(Tail(a), d, p \div LimbBase)

\* a shifted left by one limb, kept at its width
ShiftLimbL(a) == << 0 >> \o SubSeq(a, 1, Len(a) - 1)

\* wrapping multiplication, at the width of a
RECURSIVE WMul(_, _)
WMul(a, b) ==
    IF b = << >> THEN Zero(Len(a))
    ELSE WAdd(MulLimb(a, Head(b), 0), WMul(ShiftLimbL(a), Tail(b)))

\* a signed 64-bit value divided by 4294967296 (2^32), truncating toward zero
ShiftR32(x) == SubSeq(x, W32 + 1, W64) \o Zero(W32)
Div4294967296(x) == IF IsNeg(x) THEN WNeg(ShiftR32(WNeg(x))) ELSE ShiftR32(x)

\* the 64-bit value of a decimal numeral given by its digits
RECURSIVE Dec(_)
Dec(ds) ==
    IF ds = << >> THEN Zero(W64)
    ELSE WAdd(WMul(Dec(SubSeq(ds, 1, Len(ds) - 1)), Limbs(10, W64)),
              Limbs(ds[Len(ds)], W64))

\* bitwise AND of two naturals
RECURSIVE AndNat(_, _)
AndNat(a, b) ==
    IF a = 0 \/ b = 0 THEN 0
    ELSE (a % 2) * (b % 2) + 2 * AndNat(a \div 2, b \div 2)

\* bitwise AND and OR of two values of the same width
BitAndW(a, b) == [i \in 1..Len(a) |-> AndNat(a[i], b[i])]
BitOrW(a, b) == [i \in 1..Len(a) |-> a[i] + b[i] - AndNat(a[i], b[i])]

\* "x > 0" for a signed value
IsPositive(x) == ~IsNeg(x) /\ x # Zero(Len(x))

\* -------------------------------------------------------------------------
\* Mode flags (src/common.rs)
\* -------------------------------------------------------------------------

PpsModeBit ==
    { "CaptureAssert", "CaptureClear", "CaptureBoth", "OffsetAssert", "OffsetClear",
      "CanWait", "CanPoll", "EchoAssert", "EchoClear", "TsFmtTSpec", "TsFmtNTPFP" }

\* the enum discriminants, "bit as i32"
BitValue(bit) ==
    Limbs(CASE bit = "CaptureAssert" -> 1     \* 0x01
            [] bit = "CaptureClear"  -> 2     \* 0x02
            [] bit = "CaptureBoth"   -> 3     \* 0x03
            [] bit = "OffsetAssert"  -> 16    \* 0x10
            [] bit = "OffsetClear"   -> 32    \* 0x20
            [] bit = "CanWait"       -> 256   \* 0x100
            [] bit = "CanPoll"       -> 512   \* 0x200
            [] bit = "EchoAssert"    -> 64    \* 0x40
            [] bit = "EchoClear"     -> 128   \* 0x80
            [] bit = "TsFmtTSpec"    -> 4096  \* 0x1000
            [] bit = "TsFmtNTPFP"    -> 8192  \* 0x2000
          , W32)

\* PpsModeBuilder::new: mode 0
BuilderNew == Zero(W32)

\* PpsModeBuilder::add_mode: self.mode |= bit as i32
add_mode(m, bit) == BitOrW(m, BitValue(bit))

\* a remove_mode that forgets the complement: self.mode &= bit as i32
remove_mode_NoComplement(m, bit) == BitAndW(m, BitValue(bit))

\* PpsModeBuilder::remove_mode: self.mode &= !(bit as i32)
remove_mode(m, bit) == BitAndW(m, BitNotW(BitValue(bit)))

\* PpsModeBuilder::build: PpsMode(self.mode)
build(m) == m

\* PpsMode::mode_is_set: (self.0 & mode as i32) > 0
mode_is_set(m, bit) == IsPositive(BitAndW(m, BitValue(bit)))

\* PpsMode::get_bits: every flag of the enumeration with its state
get_bits(m) == [bit \in PpsModeBit |-> mode_is_set(m, bit)]

\* -------------------------------------------------------------------------
\* Time values and their conversions (src/lib.rs, src/linux/mod.rs)
\* -------------------------------------------------------------------------

\* nix TimeSpec::new(seconds, nanoseconds): two signed 64-bit fields
TimeSpecNew(secs, nsec) == [tv_sec |-> secs, tv_nsec |-> nsec]

\* the two variants of PpsTimeU
TimeSpecU(ts) == [tag |-> "TimeSpec", ts |-> ts]
NtpFpU(integral, fractional) ==
    [tag |-> "NtpFp", ntp |-> [integral |-> integral, fractional |-> fractional]]

\* const UNIX_NTP_OFFSET: i64 = 3124137599 - 915148799
UNIX_NTP_OFFSET == WSub(Dec(<<3,1,2,4,1,3,7,5,9,9>>), Dec(<<9,1,5,1,4,8,7,9,9>>))

\* the literal 1000000000 as an i64
Billion == Dec(<<1,0,0,0,0,0,0,0,0,0>>)

\* impl From<NtpFp> for TimeSpec:
\*   secs = integral as i64 - UNIX_NTP_OFFSET
\*   nsec = fractional as i64 / 4294967296 * 1000000000   (left to right)
NtpFpToTimeSpec(value) ==
    LET secs == WSub(ZeroExtend(value.integral, W64), UNIX_NTP_OFFSET)
        nsec == WMul(Div4294967296(ZeroExtend(value.fractional, W64)), Billion)
    IN  TimeSpecNew(secs, nsec)

\* a Default for LinuxTimeSpec with every field zero
LinuxTimeSpecDefault_AllZero ==
    [tv_sec |-> Zero(W64), tv_nsec |-> Zero(W32), flags |-> Zero(W32)]

\* impl Default for LinuxTimeSpec: tv_sec 0, tv_nsec 0, flags 1
LinuxTimeSpecDefault ==
    [tv_sec |-> Zero(W64), tv_nsec |-> Zero(W32), flags |-> Limbs(1, W32)]

\* impl From<LinuxTimeSpec> for TimeSpec: new(tv_sec, tv_nsec as i64)
LinuxTimeSpecToTimeSpec(value) ==
    TimeSpecNew(value.tv_sec, SignExtend(value.tv_nsec, W64))

\* impl From<TimeSpec> for LinuxTimeSpec: tv_nsec as i32, flags 0
TimeSpecToLinuxTimeSpec(value) ==
    [tv_sec |-> value.tv_sec, tv_nsec |-> Truncate(value.tv_nsec, W32), flags |-> Zero(W32)]

\* a std Duration: whole seconds (u64) and sub-second nanoseconds (u32)
DurationNew(secs, nanos) == [secs |-> secs, nanos |-> nanos]
DurationZero == DurationNew(Zero(W64), Zero(W32))
DurationIsZero(d) == d.secs = Zero(W64) /\ d.nanos = Zero(W32)

\* impl From<Duration> for LinuxTimeSpec: through TimeSpec
DurationToLinuxTimeSpec(value) ==
    TimeSpecToLinuxTimeSpec(TimeSpecNew(value.secs, ZeroExtend(value.nanos, W64)))

\* impl From<PpsTimeU> for LinuxPpsTime: the union's tspec member
PpsTimeUToLinuxPpsTime(value) ==
    IF value.tag = "TimeSpec"
    THEN [tspec |-> TimeSpecToLinuxTimeSpec(value.ts)]
    ELSE [tspec |-> TimeSpecToLinuxTimeSpec(NtpFpToTimeSpec(value.ntp))]

\* get_tus_from_pps_time: assert!(mode.mode_is_set(PpsModeBit::TsFmtTSpec))
get_tus_panics(mode) == ~mode_is_set(mode, "TsFmtTSpec")

\* get_tus_from_pps_time: both union members read as tspec
get_tus_from_pps_time(mode, assert_tu, clear_tu) ==
    << TimeSpecU(LinuxTimeSpecToTimeSpec(assert_tu.tspec)),
       TimeSpecU(LinuxTimeSpecToTimeSpec(clear_tu.tspec)) >>

\* impl From<LinuxPpsInfo> for PpsInfo: the sequences are "i32 as u64"
LinuxPpsInfoToPpsInfo(value) ==
    LET tus == get_tus_from_pps_time(value.current_mode, value.assert_tu, value.clear_tu)
    IN  [ assert_sequence |-> SignExtend(value.assert_sequence, W64),
          assert_tu       |-> tus[1],
          clear_sequence  |-> SignExtend(value.clear_sequence, W64),
          clear_tu        |-> tus[2],
          mode            |-> value.current_mode ]

\* impl From<LinuxPpsParams> for PpsParams
LinuxPpsParamsToPpsParams(value) ==
    LET tus == get_tus_from_pps_time(value.mode, value.assert_off_tu, value.clear_off_tu)
    IN  [ api_version   |-> value.api_version,
          mode          |-> value.mode,
          assert_off_tu |-> tus[1],
          clear_off_tu  |-> tus[2] ]

\* LinuxPpsParams::new as LinuxPpsIoc::set_params packs it
LinuxPpsParamsNew(assert_offset, clear_offset, api_version, mode) ==
    [ api_version   |-> api_version,
      mode          |-> mode,
      assert_off_tu |-> PpsTimeUToLinuxPpsTime(assert_offset),
      clear_off_tu  |-> PpsTimeUToLinuxPpsTime(clear_offset) ]

\* PpsFile::set_params: the structure that reaches the kernel for the caller's
\* record; both offset arguments of the backend call are params.assert_off_tu
PpsFileSetParamsWire(params) ==
    LinuxPpsParamsNew(params.assert_off_tu, params.assert_off_tu,
                      params.api_version, params.mode)

\* PpsFile::fetch: the wire timeout for the caller's Duration
PpsFileFetchTimeout(timeout) ==
    IF DurationIsZero(timeout) THEN LinuxTimeSpecDefault
    ELSE DurationToLinuxTimeSpec(timeout)

\* -------------------------------------------------------------------------
\* Bounds and the values the environment supplies
\* -------------------------------------------------------------------------

\* open attempts and public operations (get_params, set_params, get_cap, fetch)
\* a caller makes in one run
MaxRequests == 3
\* add_mode / remove_mode calls on one builder
MaxCalls == 3

\* one slot per open attempt
Handles == 1..MaxRequests

\* a nix Result<()> of a backend call or of the ioctl: Ok, or Err(errno)
NotCalled == [kind |-> "NotCalled", errno |-> 0]
NixOk == [kind |-> "Ok", errno |-> 0]
NixErr(e) == [kind |-> "Err", errno |-> e]

\* The handle is written against the PpsIoc contract (the alias PpsIocImpl), whose
\* six operations return a nix Result; the results below are the ones that
\* contract allows. LinuxPpsIoc::create and ::destroy are the instance of it
\* that always returns Ok(()).

\* errno values a backend call may report (ENODEV, EINVAL)
Errnos == {19, 22}
\* errno values of a failed path open (ENOENT, EACCES)
IoErrnos == {2, 13}

SysResults == {NixOk} \cup {NixErr(e) : e \in Errnos}
\* what the backend destroy may return
DestroyResults == {NixOk, NixErr(22)}
PathResults == {NixOk} \cup {NixErr(e) : e \in IoErrnos}

Null == [tag |-> "null"]

U32(b0, b1, b2, b3) == << b0, b1, b2, b3 >>

\* offsets a caller may put in a PpsParams record
TsZero == TimeSpecU(TimeSpecNew(Zero(W64), Zero(W64)))
TsSmall == TimeSpecU(TimeSpecNew(Limbs(1, W64), Limbs(500, W64)))
NtpHalf == NtpFpU(Zero(W32), U32(0, 0, 0, 128))                      \* fractional 2^31
NtpEpoch == NtpFpU(U32(128, 126, 170, 131), U32(255, 255, 255, 255))  \* integral 2208988800
NtpMax == NtpFpU(U32(255, 255, 255, 255), U32(1, 0, 0, 0))

\* (assert offset, clear offset) pairs of the caller's records
CallerOffsetPairs ==
    { << TsZero, TsSmall >>, << TsSmall, TsSmall >>, << NtpHalf, TsZero >>,
      << NtpEpoch, NtpHalf >>, << NtpMax, NtpMax >> }

\* PpsVersion::default(): version 1
PpsVersionDefault == Limbs(1, W32)

\* the mode a caller builds: TsFmtTSpec | CaptureAssert
CallerMode == add_mode(add_mode(BuilderNew, "TsFmtTSpec"), "CaptureAssert")

CallerParams ==
    { [api_version |-> PpsVersionDefault, mode |-> CallerMode,
       assert_off_tu |-> p[1], clear_off_tu |-> p[2]] : p \in CallerOffsetPairs }

\* timeouts a caller may pass to fetch: zero, and 1.5 s
CallerTimeouts ==
    { DurationZero, DurationNew(Limbs(1, W64), Limbs(500000000, W32)) }

\* mode words the kernel may return: no format bit, TSPEC | CAPTUREASSERT, NTPFP
KernelModes == { Zero(W32), Limbs(4096 + 1, W32), Limbs(8192, W32) }

\* wire timestamps the kernel may return
KtZero == [tv_sec |-> Zero(W64), tv_nsec |-> Zero(W32), flags |-> Zero(W32)]
KtLate ==
    [tv_sec |-> Dec(<<4,1,0,2,4,4,4,8,0,0>>), tv_nsec |-> Limbs(999999999, W32),
     flags |-> Zero(W32)]
KernelTimePairs == { << KtZero, KtLate >>, << KtLate, KtZero >> }

\* (assert, clear) pairs of 32-bit sequence counters the kernel may return,
\* over the values 1, 2^31 - 1, 2^31 and 2^32 - 1
KernelSeqPairs ==
    { << U32(1, 0, 0, 0), U32(255, 255, 255, 127) >>,
      << U32(0, 0, 0, 128), U32(1, 0, 0, 0) >>,
      << U32(255, 255, 255, 255), U32(0, 0, 0, 128) >>,
      << U32(255, 255, 255, 127), U32(255, 255, 255, 255) >> }

KernelParams ==
    { [api_version |-> PpsVersionDefault, mode |-> m,
       assert_off_tu |-> [tspec |-> t[1]], clear_off_tu |-> [tspec |-> t[2]]] :
        m \in KernelModes, t \in KernelTimePairs }

KernelInfos ==
    { [assert_sequence |-> q[1], clear_sequence |-> q[2],
       assert_tu |-> [tspec |-> KtLate], clear_tu |-> [tspec |-> KtZero],
       current_mode |-> m] :
        q \in KernelSeqPairs, m \in KernelModes \ { Limbs(8192, W32) } }

\* -------------------------------------------------------------------------
\* State
\* -------------------------------------------------------------------------

VARIABLES
    hstate,      \* per open attempt: "Unopened", "Open", "Destroyed", "NoHandle"
    fdHeld,      \* per open attempt: the File owns the descriptor
    calls,       \* per descriptor: the backend (PpsIoc) calls issued on it, in order
    pathRes,     \* per open attempt: result of OpenOptions::open (NotCalled for a raw fd)
    createRes,   \* per descriptor: what the backend create returned
    destroyRes,  \* per descriptor: what the backend destroy returned
    openRet,     \* per open attempt: what from_path / from_raw_fd returned
    dropRet,     \* per handle: "none", "returned" (drop ran to its end) or "panicked"
    last,        \* the last public operation: its input, its syscall, its result
    bmode,       \* PpsModeBuilder.mode
    bcalls       \* the add_mode / remove_mode calls made on the builder, in order

vars == << hstate, fdHeld, calls, pathRes, createRes, destroyRes, openRet, dropRet,
           last, bmode, bcalls >>

handleVars == << hstate, fdHeld, calls, pathRes, createRes, destroyRes, openRet, dropRet >>
builderVars == << bmode, bcalls >>

NoOp ==
    [ op |-> "none", attempts |-> 0, sys |-> NotCalled, ret |-> "none", errno |-> 0,
      arg |-> Null, sent |-> Null, recv |-> Null, value |-> Null ]

Init ==
    /\ hstate = [h \in Handles |-> "Unopened"]
    /\ fdHeld = [h \in Handles |-> FALSE]
    /\ calls = [h \in Handles |-> << >>]
    /\ pathRes = [h \in Handles |-> NotCalled]
    /\ createRes = [h \in Handles |-> NotCalled]
    /\ destroyRes = [h \in Handles |-> NotCalled]
    /\ openRet = [h \in Handles |-> NotCalled]
    /\ dropRet = [h \in Handles |-> "none"]
    /\ last = NoOp
    /\ bmode = BuilderNew
    /\ bcalls = << >>

\* an assert! failed: the thread unwinds, and only drops run from here on
Panicked == last.ret = "Panic"

\* open attempts and public operations made so far
RECURSIVE OpsIn(_)
OpsIn(log) ==
    IF log = << >> THEN 0
    ELSE (IF Head(log) \in {"create", "destroy"} THEN 0 ELSE 1) + OpsIn(Tail(log))

RECURSIVE RequestsUpTo(_)
RequestsUpTo(h) ==
    IF h = 0 THEN 0
    ELSE (IF hstate[h] = "Unopened" THEN 0 ELSE 1) + OpsIn(calls[h]) + RequestsUpTo(h - 1)

Requests == RequestsUpTo(MaxRequests)

\* -------------------------------------------------------------------------
\* Device handle lifecycle (src/lib.rs)
\* -------------------------------------------------------------------------

\* impl Drop for PpsFile: the backend destroy is called on the descriptor
DropCalls(log) == Append(log, "destroy")

\* a drop that unwraps the result of destroy
DropOutcome_Unwrap(dres) == IF dres.kind = "Err" THEN "panicked" ELSE "returned"

\* impl Drop for PpsFile: "let _res = self.destroy();" discards the result
DropOutcome(dres) == "returned"

\* a new() that does not look at the result of create
PpsFileNew_IgnoreCreate(h, pres, cres, dres) ==
    /\ pathRes' = [pathRes EXCEPT ![h] = pres]
    /\ createRes' = [createRes EXCEPT ![h] = cres]
    /\ hstate' = [hstate EXCEPT ![h] = "Open"]
    /\ fdHeld' = [fdHeld EXCEPT ![h] = TRUE]
    /\ calls' = [calls EXCEPT ![h] = << "create" >>]
    /\ openRet' = [openRet EXCEPT ![h] = NixOk]
    /\ UNCHANGED << destroyRes, dropRet >>

\* PpsFile::new on an acquired File: the value Self { pps_device } is built, then
\* create is called on its descriptor; on Err the "?" returns PpsError::Sys(err)
\* and the value goes out of scope, which runs Drop (destroy) and closes the File
PpsFileNew(h, pres, cres, dres) ==
    /\ pathRes' = [pathRes EXCEPT ![h] = pres]
    /\ createRes' = [createRes EXCEPT ![h] = cres]
    /\ IF cres.kind = "Ok"
       THEN /\ hstate' = [hstate EXCEPT ![h] = "Open"]
            /\ fdHeld' = [fdHeld EXCEPT ![h] = TRUE]
            /\ calls' = [calls EXCEPT ![h] = << "create" >>]
            /\ openRet' = [openRet EXCEPT ![h] = NixOk]
            /\ UNCHANGED << destroyRes, dropRet >>
       ELSE /\ hstate' = [hstate EXCEPT ![h] = "NoHandle"]
            /\ fdHeld' = [fdHeld EXCEPT ![h] = FALSE]
            /\ calls' = [calls EXCEPT ![h] = DropCalls(<< "create" >>)]
            /\ destroyRes' = [destroyRes EXCEPT ![h] = dres]
            /\ dropRet' = [dropRet EXCEPT ![h] = DropOutcome(dres)]
            /\ openRet' = [openRet EXCEPT ![h] = [kind |-> "Sys", errno |-> cres.errno]]

\* open attempts take the slots in order
CanOpen(h) ==
    /\ hstate[h] = "Unopened"
    /\ ~Panicked
    /\ Requests < MaxRequests
    /\ IF h = 1 THEN TRUE ELSE hstate[h - 1] # "Unopened"

\* PpsFile::from_path / TryFrom<&Path>: open read-write ("?"), then new
FromPath(h) ==
    /\ CanOpen(h)
    /\ \E pres \in PathResults, cres \in SysResults, dres \in DestroyResults :
          IF pres.kind = "Err"
          THEN /\ pathRes' = [pathRes EXCEPT ![h] = pres]
               /\ hstate' = [hstate EXCEPT ![h] = "NoHandle"]
               /\ openRet' = [openRet EXCEPT ![h] = [kind |-> "Io", errno |-> pres.errno]]
               /\ UNCHANGED << fdHeld, calls, createRes, destroyRes, dropRet >>
          ELSE PpsFileNew(h, pres, cres, dres)
    /\ UNCHANGED << last, builderVars >>

\* PpsFile::from_raw_fd / TryFrom<RawFd>: the descriptor is adopted, then new
FromRawFd(h) ==
    /\ CanOpen(h)
    /\ \E cres \in SysResults, dres \in DestroyResults : PpsFileNew(h, NotCalled, cres, dres)
    /\ UNCHANGED << last, builderVars >>

\* the handle goes out of scope (also while a panic unwinds): Drop, then the
\* File field is dropped and the descriptor closed
Release(h) ==
    /\ hstate[h] = "Open"
    /\ \E dres \in DestroyResults :
          /\ calls' = [calls EXCEPT ![h] = DropCalls(@)]
          /\ destroyRes' = [destroyRes EXCEPT ![h] = dres]
          /\ dropRet' = [dropRet EXCEPT ![h] = DropOutcome(dres)]
    /\ hstate' = [hstate EXCEPT ![h] = "Destroyed"]
    /\ fdHeld' = [fdHeld EXCEPT ![h] = FALSE]
    /\ UNCHANGED << pathRes, createRes, openRet, last, builderVars >>

\* -------------------------------------------------------------------------
\* Public operations on an Open handle (src/lib.rs over src/linux/mod.rs)
\* -------------------------------------------------------------------------

\* &self of a live handle
CanCall(h) ==
    /\ hstate[h] = "Open"
    /\ ~Panicked
    /\ Requests < MaxRequests

\* each backend operation issues the ioctl once ("?" on its result, no loop)
IoctlAttempts == 1

\* the record of one public operation
Outcome(op, arg, sent, sys, recv, ret, value) ==
    [ op |-> op, attempts |-> IoctlAttempts, sys |-> sys, ret |-> ret,
      errno |-> IF ret = "Err" THEN sys.errno ELSE 0,
      arg |-> arg, sent |-> sent, recv |-> recv, value |-> value ]

Issue(h, op) ==
    /\ calls' = [calls EXCEPT ![h] = Append(@, op)]
    /\ UNCHANGED << hstate, fdHeld, pathRes, createRes, destroyRes, openRet, dropRet,
                    builderVars >>

\* PpsFile::get_params: backend get_params, map_err(Sys), "?", then raw.into()
GetParams(h) ==
    /\ CanCall(h)
    /\ \E sys \in SysResults, raw \in KernelParams :
          last' = IF sys.kind = "Err"
                  THEN Outcome("get_params", Null, Null, sys, Null, "Err", Null)
                  ELSE IF get_tus_panics(raw.mode)
                  THEN Outcome("get_params", Null, Null, sys, raw, "Panic", Null)
                  ELSE Outcome("get_params", Null, Null, sys, raw, "Ok",
                               LinuxPpsParamsToPpsParams(raw))
    /\ Issue(h, "get_params")

\* PpsFile::set_params: backend set_params packs the structure and writes it
SetParams(h) ==
    /\ CanCall(h)
    /\ \E sys \in SysResults, params \in CallerParams :
          last' = Outcome("set_params", params, PpsFileSetParamsWire(params), sys, Null,
                          IF sys.kind = "Err" THEN "Err" ELSE "Ok", Null)
    /\ Issue(h, "set_params")

\* PpsFile::get_cap: backend get_cap reads the capability word, then get_bits
GetCap(h) ==
    /\ CanCall(h)
    /\ \E sys \in SysResults, cap \in KernelModes :
          last' = IF sys.kind = "Err"
                  THEN Outcome("get_cap", Null, Null, sys, Null, "Err", Null)
                  ELSE Outcome("get_cap", Null, Null, sys, cap, "Ok", get_bits(cap))
    /\ Issue(h, "get_cap")

\* PpsFile::fetch: the timeout is converted, backend fetch, "?", then raw.into()
Fetch(h) ==
    /\ CanCall(h)
    /\ \E sys \in SysResults, timeout \in CallerTimeouts, info \in KernelInfos :
          LET sent == PpsFileFetchTimeout(timeout)
          IN  last' = IF sys.kind = "Err"
                      THEN Outcome("fetch", timeout, sent, sys, Null, "Err", Null)
                      ELSE IF get_tus_panics(info.current_mode)
                      THEN Outcome("fetch", timeout, sent, sys, info, "Panic", Null)
                      ELSE Outcome("fetch", timeout, sent, sys, info, "Ok",
                                   LinuxPpsInfoToPpsInfo(info))
    /\ Issue(h, "fetch")

Next ==
    \/ \E h \in Handles : FromPath(h)
    \/ \E h \in Handles : FromRawFd(h)
    \/ \E h \in Handles : Release(h)
    \/ \E h \in Handles : GetParams(h)
    \/ \E h \in Handles : SetParams(h)
    \/ \E h \in Handles : GetCap(h)
    \/ \E h \in Handles : Fetch(h)

Spec == Init /\ [][Next]_vars

\* -------------------------------------------------------------------------
\* The mode builder as a state machine (src/common.rs)
\* -------------------------------------------------------------------------

AddMode(bit) ==
    /\ Len(bcalls) < MaxCalls
    /\ bmode' = add_mode(bmode, bit)
    /\ bcalls' = Append(bcalls, [op |-> "add", bit |-> bit])
    /\ UNCHANGED << handleVars, last >>

RemoveMode(bit) ==
    /\ Len(bcalls) < MaxCalls
    /\ bmode' = remove_mode(bmode, bit)
    /\ bcalls' = Append(bcalls, [op |-> "remove", bit |-> bit])
    /\ UNCHANGED << handleVars, last >>

NextMode ==
    \/ \E bit \in PpsModeBit : AddMode(bit)
    \/ \E bit \in PpsModeBit : RemoveMode(bit)

SpecMode == Init /\ [][NextMode]_vars

\* -------------------------------------------------------------------------
\* Properties of the device handle (checked under Spec)
\* -------------------------------------------------------------------------

Count(log, name) == Cardinality({ i \in 1..Len(log) : log[i] = name })

\* C1: set_params writes to the kernel a structure whose assert-offset member is
\* the duration form of params.assert_off_tu and whose clear-offset member is
\* the duration form of params.clear_off_tu, with params.api_version and
\* params.mode, for every pair of offsets.
C1_SetParamsCarriesBothOffsets ==
    last.op = "set_params" =>
        /\ last.sent.assert_off_tu = PpsTimeUToLinuxPpsTime(last.arg.assert_off_tu)
        /\ last.sent.clear_off_tu = PpsTimeUToLinuxPpsTime(last.arg.clear_off_tu)
        /\ last.sent.api_version = last.arg.api_version
        /\ last.sent.mode = last.arg.mode

\* floor(fractional * 1000000000 / 2^32), as a 64-bit value
NanosOfFraction(fractional) == Div4294967296(WMul(ZeroExtend(fractional, W64), Billion))

\* C2: an NtpFp (integral, fractional) in duration form has
\* seconds = integral - 2208988800 and
\* nanoseconds = floor(fractional * 1000000000 / 2^32); observed on the assert
\* offset that set_params converts for the wire.
C2_NtpFractionToDuration ==
    (last.op = "set_params" /\ last.arg.assert_off_tu.tag = "NtpFp") =>
        LET ntp  == last.arg.assert_off_tu.ntp
            wire == last.sent.assert_off_tu.tspec
        IN  /\ wire.tv_sec = WSub(ZeroExtend(ntp.integral, W64), Dec(<<2,2,0,8,9,8,8,8,0,0>>))
            /\ wire.tv_nsec = Truncate(NanosOfFraction(ntp.fractional), W32)

\* C4: for every handle a successful open produced, the backend destroy is
\* called exactly once, at release and as the last backend call on the
\* descriptor, and release returns normally whatever destroy returned.
C4_DestroyOnceAtRelease ==
    \A h \in Handles :
        openRet[h].kind = "Ok" =>
            /\ hstate[h] \in {"Open", "Destroyed"}
            /\ hstate[h] = "Open" =>
                  /\ Count(calls[h], "destroy") = 0
                  /\ dropRet[h] = "none"
            /\ hstate[h] = "Destroyed" =>
                  /\ Count(calls[h], "destroy") = 1
                  /\ calls[h][Len(calls[h])] = "destroy"
                  /\ dropRet[h] = "returned"

\* C4 witness: a handle that was opened, used, and released with a failing destroy
C4_Witness ==
    \E h \in Handles :
        /\ openRet[h].kind = "Ok"
        /\ hstate[h] = "Destroyed"
        /\ destroyRes[h].kind = "Err"
        /\ Len(calls[h]) >= 3

\* C5: a failed path open returns its error, holds no descriptor and issues no
\* backend call; a failed create returns the error code of create; in both
\* cases no handle is produced.
C5_FailedOpenProducesNoHandle ==
    \A h \in Handles :
        /\ pathRes[h].kind = "Err" =>
              /\ openRet[h] = [kind |-> "Io", errno |-> pathRes[h].errno]
              /\ hstate[h] = "NoHandle"
              /\ ~fdHeld[h]
              /\ calls[h] = << >>
        /\ createRes[h].kind = "Err" =>
              /\ openRet[h] = [kind |-> "Sys", errno |-> createRes[h].errno]
              /\ hstate[h] = "NoHandle"
              /\ ~fdHeld[h]

\* C5 witness: one open attempt failed at the path, another at create
C5_Witness ==
    \E h, g \in Handles :
        /\ pathRes[h].kind = "Err"
        /\ createRes[g].kind = "Err"
        /\ pathRes[g].kind = "Ok"

\* C6: every get_params, set_params, get_cap and fetch makes exactly one ioctl
\* attempt; a failed attempt is returned as a system error with the same errno
\* and no value; a successful attempt makes the call return a success value.
C6_OneAttemptErrorOrValue ==
    last.op # "none" =>
        /\ last.attempts = 1
        /\ last.sys.kind = "Err" =>
              /\ last.ret = "Err"
              /\ last.errno = last.sys.errno
              /\ last.value = Null
        /\ last.sys.kind = "Ok" => last.ret = "Ok"

AllZeroTimeout == [tv_sec |-> Zero(W64), tv_nsec |-> Zero(W32), flags |-> Zero(W32)]

\* C7 (as claimed): fetch with a zero Duration hands the backend a timeout whose
\* fields tv_sec, tv_nsec and flags are all zero.
C7_ZeroTimeoutAllFieldsZero ==
    (last.op = "fetch" /\ DurationIsZero(last.arg)) => last.sent = AllZeroTimeout

\* C7 (amended): fetch with a zero Duration hands the backend the default wire
\* timeout, which has tv_sec = 0, tv_nsec = 0 and flags = 1.
C7_ZeroTimeoutIsDefaultWithFlag ==
    (last.op = "fetch" /\ DurationIsZero(last.arg)) =>
        /\ last.sent.tv_sec = Zero(W64)
        /\ last.sent.tv_nsec = Zero(W32)
        /\ last.sent.flags = Limbs(1, W32)

\* C7 witness: a fetch with a zero Duration went through
C7_Witness ==
    /\ last.op = "fetch"
    /\ DurationIsZero(last.arg)
    /\ last.ret = "Ok"

\* C8: whenever the ioctl of get_params or fetch succeeds, the call returns a
\* record, for every mode word of the wire structure: its two time values are
\* the TimeSpec variant with the wire's seconds and nanoseconds, and its mode is
\* the wire mode.
C8_SuccessAlwaysReturnsRecord ==
    /\ (last.op = "get_params" /\ last.sys.kind = "Ok") =>
          /\ last.ret = "Ok"
          /\ last.value.assert_off_tu =
                TimeSpecU(LinuxTimeSpecToTimeSpec(last.recv.assert_off_tu.tspec))
          /\ last.value.clear_off_tu =
                TimeSpecU(LinuxTimeSpecToTimeSpec(last.recv.clear_off_tu.tspec))
          /\ last.value.mode = last.recv.mode
    /\ (last.op = "fetch" /\ last.sys.kind = "Ok") =>
          /\ last.ret = "Ok"
          /\ last.value.assert_tu =
                TimeSpecU(LinuxTimeSpecToTimeSpec(last.recv.assert_tu.tspec))
          /\ last.value.clear_tu =
                TimeSpecU(LinuxTimeSpecToTimeSpec(last.recv.clear_tu.tspec))
          /\ last.value.mode = last.recv.current_mode

RECURSIVE ULess(_, _)
ULess(a, b) ==
    IF a = << >> THEN FALSE
    ELSE LET n == Len(a)
         IN  \/ a[n] < b[n]
             \/ a[n] = b[n] /\ ULess(SubSeq(a, 1, n - 1), SubSeq(b, 1, n - 1))

\* the high 32 bits of a 64-bit value are zero: the value is below 2^32
Below2Pow32(x) == SubSeq(x, W32 + 1, W64) = Zero(W32)

\* C10: the sequences of a fetched PpsInfo are the wire counters read as
\* unsigned 32-bit values: below 2^32, and in the same order as on the wire.
C10_SequencesReadUnsigned ==
    (last.op = "fetch" /\ last.ret = "Ok") =>
        /\ last.value.assert_sequence = ZeroExtend(last.recv.assert_sequence, W64)
        /\ last.value.clear_sequence = ZeroExtend(last.recv.clear_sequence, W64)
        /\ Below2Pow32(last.value.assert_sequence)
        /\ Below2Pow32(last.value.clear_sequence)
        /\ ULess(last.recv.assert_sequence, last.recv.clear_sequence) =>
              ULess(last.value.assert_sequence, last.value.clear_sequence)

\* -------------------------------------------------------------------------
\* Properties of the mode builder (checked under SpecMode)
\* -------------------------------------------------------------------------

\* the position of the last call naming the flag, 0 if none
LastCallOn(bit) ==
    LET S == { i \in 1..Len(bcalls) : bcalls[i].bit = bit }
    IN  IF S = {} THEN 0 ELSE CHOOSE i \in S : \A j \in S : j <= i

\* two different flags share a bit
Overlap(f, g) == f # g /\ BitAndW(BitValue(f), BitValue(g)) # Zero(W32)

\* a call after the last one naming the flag names a flag that shares a bit with it
TouchedLater(bit) ==
    \E i \in (LastCallOn(bit) + 1)..Len(bcalls) : Overlap(bcalls[i].bit, bit)

\* C3 (as claimed): for every flag, mode_is_set on the built mode is true if the
\* last call naming it was add_mode and false if it was remove_mode, whatever
\* calls on other flags are interleaved.
C3_LastCallDecidesEveryFlag ==
    \A bit \in PpsModeBit :
        LastCallOn(bit) > 0 =>
            (mode_is_set(build(bmode), bit) <=> bcalls[LastCallOn(bit)].op = "add")

\* C3 (amended): the same, provided no call after the last one naming the flag
\* names another flag that shares a bit with it (CaptureBoth shares its bits
\* with CaptureAssert and CaptureClear; the other eight flags share none).
C3_LastCallDecidesUntouchedFlag ==
    \A bit \in PpsModeBit :
        (LastCallOn(bit) > 0 /\ ~TouchedLater(bit)) =>
            (mode_is_set(build(bmode), bit) <=> bcalls[LastCallOn(bit)].op = "add")

\* C3 witness: CaptureAssert removed after CaptureBoth was added, then another
\* flag added: the last calls on CaptureAssert and EchoClear decide them
C3_Witness ==
    /\ Len(bcalls) = 3
    /\ bcalls[1] = [op |-> "add", bit |-> "CaptureBoth"]
    /\ bcalls[2] = [op |-> "remove", bit |-> "CaptureAssert"]
    /\ bcalls[3] = [op |-> "add", bit |-> "EchoClear"]
    /\ ~mode_is_set(build(bmode), "CaptureAssert")
    /\ mode_is_set(build(bmode), "EchoClear")

====
